---------------------------- MODULE Spec2Model ----------------------------
(***************************************************************************)
(* Cyclic coordinate descent for the Lasso, src/src/lasso_cda.cpp.         *)
(*                                                                         *)
(* Two exported entry points are modelled:                                 *)
(*   soft_threshold(z, lambda)                 (lines 9-13)                *)
(*   lasso_cda_cpp(X, y, lambda, max_iter, tol) (lines 21-79)              *)
(*                                                                         *)
(* A C++ double is modelled as an extended rational <<num, den>>:          *)
(*   den > 0   the finite value num/den, in lowest terms                   *)
(*   <<1,0>>   +Inf      <<-1,0>>  -Inf      <<0,0>>  NaN                  *)
(* so that arithmetic is exact on finite values and the IEEE-754 outcomes  *)
(* of a division by zero (lines 60-61) are kept.                           *)
(***************************************************************************)
EXTENDS Integers, Sequences, FiniteSets, TLC

VARIABLES
    X,           \* NumericMatrix X: sequence of n rows, each a sequence of p doubles
    y,           \* NumericVector y (the caller's response vector)
    lambda,      \* double lambda
    max_iter,    \* int max_iter
    tol,         \* double tol
    beta,        \* NumericVector beta(p, 0.0)
    X_j,         \* NumericVector X_j(n): scratch copy of one column
    r,           \* NumericVector r = clone(y): the residual
    beta_old,    \* double beta_old
    max_change,  \* double max_change
    iter,        \* outer loop counter
    j,           \* inner loop counter (0-based, as in the source)
    pc,          \* control position
    sweeps,      \* history: number of completed passes of the inner loop
    z,           \* argument z of a direct soft_threshold call
    st_result    \* value returned by a direct soft_threshold call

vars == <<X, y, lambda, max_iter, tol, beta, X_j, r, beta_old, max_change,
          iter, j, pc, sweeps, z, st_result>>

(***************************************************************************)
(* Bounds of the model.                                                    *)
(***************************************************************************)
MaxIterCap == 2    \* max_iter ranges over 0..MaxIterCap
MaxZ == 9          \* soft_threshold's z ranges over k/2, k in -MaxZ..MaxZ
Rows == 1..2       \* row indices of X (n = 2)
Cols == 1..2       \* column indices of X (p = 2)
XInts == {0, 1, 2}            \* entries of X
YInts == {-2, -1, 0, 1, 2}    \* entries of y
LambdaInts == {-1, 0, 1}      \* lambda
TolInts == {-1, 0, 1}         \* tol

(***************************************************************************)
(* double arithmetic                                                       *)
(***************************************************************************)
IAbs(k) == IF k < 0 THEN -k ELSE k

Sgn(k) == IF k < 0 THEN -1 ELSE IF k > 0 THEN 1 ELSE 0

RECURSIVE GCD(_, _)
GCD(a, b) == IF b = 0 THEN a ELSE GCD(b, a % b)

\* the double with numerator n and denominator d >= 0
Norm(n, d) ==
    IF d = 0 THEN <<Sgn(n), 0>>
    ELSE LET g == GCD(IAbs(n), d) IN <<n \div g, d \div g>>

Num(k) == <<k, 1>>
NaN == <<0, 0>>
PInf == <<1, 0>>
NInf == <<-1, 0>>
Uninit == <<0, -1>>     \* a double declared without initialiser, never read

IsNaN(a) == a = NaN
IsInf(a) == a[2] = 0 /\ a[1] # 0
IsFinite(a) == a[2] > 0

DNeg(a) == <<-a[1], a[2]>>

DAbs(a) == <<IAbs(a[1]), a[2]>>

DAdd(a, b) ==
    IF IsInf(a) /\ IsInf(b) THEN (IF a = b THEN a ELSE NaN)
    ELSE Norm(a[1] * b[2] + b[1] * a[2], a[2] * b[2])

DSub(a, b) == DAdd(a, DNeg(b))

DMul(a, b) == Norm(a[1] * b[1], a[2] * b[2])

\* a / b; a zero divisor is +0.0 (a sum of squares)
DDiv(a, b) ==
    Norm(a[1] * b[2] * (IF b[1] < 0 THEN -1 ELSE 1), a[2] * IAbs(b[1]))

\* a < b; false as soon as one side is NaN
DLess(a, b) ==
    IF IsNaN(a) \/ IsNaN(b) THEN FALSE
    ELSE IF IsInf(a) /\ IsInf(b) THEN a[1] < b[1]
    ELSE a[1] * b[2] < b[1] * a[2]

DLeq(a, b) == DLess(a, b) \/ (~IsNaN(a) /\ a = b)

\* std::max(a, b) == (a < b) ? b : a
DMax(a, b) == IF DLess(a, b) THEN b ELSE a

(***************************************************************************)
(* Rcpp sugar on vectors                                                   *)
(***************************************************************************)
RECURSIVE SumFrom(_, _)
SumFrom(v, i) == IF i > Len(v) THEN Num(0) ELSE DAdd(v[i], SumFrom(v, i + 1))

\* sum(v)
Sum(v) == SumFrom(v, 1)

\* a * b, elementwise
VecTimes(a, b) == [i \in 1..Len(a) |-> DMul(a[i], b[i])]

\* a * c, vector by scalar
VecScale(a, c) == [i \in 1..Len(a) |-> DMul(a[i], c)]

\* a + b, elementwise
VecPlus(a, b) == [i \in 1..Len(a) |-> DAdd(a[i], b[i])]

\* X(., col): the copy loop of lines 46-48 (col is 0-based)
Column(Xm, col) == [i \in 1..Len(Xm) |-> Xm[i][col + 1]]

nrow(Xm) == Len(Xm)
ncol(Xm) == IF Len(Xm) = 0 THEN 0 ELSE Len(Xm[1])

(***************************************************************************)
(* soft_threshold, lines 9-13                                              *)
(***************************************************************************)
\* variant: z - lambda returned on the second branch as well
soft_threshold_samesign(zz, lam) ==
    IF DLess(lam, zz) THEN DSub(zz, lam)
    ELSE IF DLess(zz, DNeg(lam)) THEN DSub(zz, lam)
    ELSE Num(0)

\* variant: the second test compares with lambda instead of -lambda
soft_threshold_nonegation(zz, lam) ==
    IF DLess(lam, zz) THEN DSub(zz, lam)
    ELSE IF DLess(zz, lam) THEN DAdd(zz, lam)
    ELSE Num(0)

\* variant: the zero region tested second, z + lambda returned last
soft_threshold_reordered(zz, lam) ==
    IF DLess(lam, zz) THEN DSub(zz, lam)
    ELSE IF DLeq(DNeg(lam), zz) THEN Num(0)
    ELSE DAdd(zz, lam)

soft_threshold(zz, lam) ==
    IF DLess(lam, zz) THEN DSub(zz, lam)
    ELSE IF DLess(zz, DNeg(lam)) THEN DAdd(zz, lam)
    ELSE Num(0)

(***************************************************************************)
(* One coordinate update, lines 46-69, as functions of the values read     *)
(***************************************************************************)
\* line 51
ColNorm2(xj) == Sum(VecTimes(xj, xj))

\* variant: the term ||X_j||^2 * beta_j left out
Rho_noback(xj, rr, bj) == Sum(VecTimes(xj, rr))

\* line 55
Rho(xj, rr, bj) == DAdd(Sum(VecTimes(xj, rr)), DMul(ColNorm2(xj), bj))

\* variant: rho not divided by the squared norm
NewBeta_unscaled(rho, norm2, lam) == soft_threshold(rho, DDiv(lam, norm2))

\* lines 60-61
NewBeta(rho, norm2, lam) == soft_threshold(DDiv(rho, norm2), DDiv(lam, norm2))

\* variant: the difference taken the other way round
ResidualUpdate_flipped(rr, xj, bold, bnew) ==
    VecPlus(rr, VecScale(xj, DSub(bnew, bold)))

\* line 65
ResidualUpdate(rr, xj, bold, bnew) == VecPlus(rr, VecScale(xj, DSub(bold, bnew)))

\* lines 68-69
ChangeUpdate(mc, bnew, bold) == DMax(mc, DAbs(DSub(bnew, bold)))

\* variant: <= in place of <
Converged_leq(mc, t) == DLeq(mc, t)

\* line 75
Converged(mc, t) == DLess(mc, t)

\* variant: r = y without clone, r and y one buffer
rAliasesY_shared == TRUE

\* line 29: clone(y) gives r storage of its own (FALSE: r does not share y's)
rAliasesY == FALSE

\* lines 46-69: the values the body of the inner loop leaves behind for
\* coordinate jj (0-based), started with coefficients b, residual rr and
\* change tracker mc
CoordStep(Xm, lam, b, rr, mc, jj) ==
    LET xj == Column(Xm, jj)
        norm2 == ColNorm2(xj)
        rho == Rho(xj, rr, b[jj + 1])
        bold == b[jj + 1]
        bnew == NewBeta(rho, norm2, lam)
    IN  [X_j |-> xj,
         beta_old |-> bold,
         beta |-> [b EXCEPT ![jj + 1] = bnew],
         r |-> ResidualUpdate(rr, xj, bold, bnew),
         max_change |-> ChangeUpdate(mc, bnew, bold)]

\* lines 43-70: the inner loop from coordinate jj on
RECURSIVE SweepFrom(_, _, _, _, _, _)
SweepFrom(Xm, lam, b, rr, mc, jj) ==
    IF jj < ncol(Xm)
    THEN LET s == CoordStep(Xm, lam, b, rr, mc, jj)
         IN  SweepFrom(Xm, lam, s.beta, s.r, s.max_change, jj + 1)
    ELSE [beta |-> b, r |-> rr, max_change |-> mc]

\* lines 37-78: the outer loop from iteration it on, and the value returned
RECURSIVE RunFrom(_, _, _, _, _, _, _)
RunFrom(Xm, lam, mi, t, b, rr, it) ==
    IF it < mi
    THEN LET s == SweepFrom(Xm, lam, b, rr, Num(0), 0)
         IN  IF Converged(s.max_change, t) THEN s.beta
             ELSE RunFrom(Xm, lam, mi, t, s.beta, s.r, it + 1)
    ELSE b

\* lines 21-79: the vector a whole call returns
lasso_cda_cpp(Xm, yv, lam, mi, t) ==
    RunFrom(Xm, lam, mi, t, [k \in 1..ncol(Xm) |-> Num(0)], yv, 0)

(***************************************************************************)
(* Inputs                                                                  *)
(***************************************************************************)
XVals == {Num(k) : k \in XInts}
YVals == {Num(k) : k \in YInts}
LambdaVals == {Num(k) : k \in LambdaInts}
TolVals == {Num(k) : k \in TolInts}
MaxIterVals == 0..MaxIterCap
ZVals == {Norm(k, 2) : k \in -MaxZ..MaxZ}

\* n x p matrices in upper-triangular form (entries below the diagonal are 0)
Matrices ==
    {m \in [Rows -> [Cols -> XVals]] :
        \A i \in Rows, k \in Cols : i > k => m[i][k] = Num(0)}
Vectors == [Rows -> YVals]

(***************************************************************************)
(* lasso_cda_cpp: state at the first test of the outer loop, lines 24-37   *)
(***************************************************************************)
Init ==
    \E Xm \in Matrices, yv \in Vectors, lam \in LambdaVals,
       mi \in MaxIterVals, t \in TolVals :
        /\ X = Xm
        /\ y = yv
        /\ lambda = lam
        /\ max_iter = mi
        /\ tol = t
        /\ beta = [k \in 1..ncol(Xm) |-> Num(0)]
        /\ X_j = [i \in 1..nrow(Xm) |-> Num(0)]
        /\ r = yv
        /\ beta_old = Uninit
        /\ max_change = Uninit
        /\ iter = 0
        /\ j = 0
        /\ pc = "loop"
        /\ sweeps = 0
        /\ z = Num(0)
        /\ st_result = Uninit

\* line 37 (condition true), line 38, line 43 (j = 0)
SweepStart ==
    /\ pc = "loop"
    /\ iter < max_iter
    /\ max_change' = Num(0)
    /\ j' = 0
    /\ pc' = "coord"
    /\ UNCHANGED <<X, y, lambda, max_iter, tol, beta, X_j, r, beta_old,
                   iter, sweeps, z, st_result>>

\* line 37 (condition false), line 78
LoopExit ==
    /\ pc = "loop"
    /\ ~(iter < max_iter)
    /\ pc' = "done"
    /\ UNCHANGED <<X, y, lambda, max_iter, tol, beta, X_j, r, beta_old,
                   max_change, iter, j, sweeps, z, st_result>>

\* lines 43-70: the body of the inner loop for coordinate j
CoordUpdate ==
    /\ pc = "coord"
    /\ j < ncol(X)
    /\ LET s == CoordStep(X, lambda, beta, r, max_change, j)
       IN  /\ X_j' = s.X_j
           /\ beta_old' = s.beta_old
           /\ beta' = s.beta
           /\ r' = s.r
           /\ y' = IF rAliasesY THEN s.r ELSE y
           /\ max_change' = s.max_change
    /\ j' = j + 1
    /\ UNCHANGED <<X, lambda, max_iter, tol, iter, pc, sweeps, z, st_result>>

\* line 43 (condition false), line 75, then line 37's iter++ or line 78
ConvergenceCheck ==
    /\ pc = "coord"
    /\ ~(j < ncol(X))
    /\ sweeps' = sweeps + 1
    /\ \/ /\ Converged(max_change, tol)
          /\ pc' = "done"
          /\ iter' = iter
       \/ /\ ~Converged(max_change, tol)
          /\ iter' = iter + 1
          /\ pc' = "loop"
    /\ UNCHANGED <<X, y, lambda, max_iter, tol, beta, X_j, r, beta_old,
                   max_change, j, z, st_result>>

Next == SweepStart \/ LoopExit \/ CoordUpdate \/ ConvergenceCheck

Spec == Init /\ [][Next]_vars

(***************************************************************************)
(* soft_threshold called directly                                          *)
(***************************************************************************)
InitST ==
    \E zz \in ZVals, lam \in LambdaVals :
        /\ z = zz
        /\ lambda = lam
        /\ st_result = Uninit
        /\ pc = "st_call"
        /\ X = <<>> /\ y = <<>> /\ max_iter = 0 /\ tol = Num(0)
        /\ beta = <<>> /\ X_j = <<>> /\ r = <<>>
        /\ beta_old = Uninit /\ max_change = Uninit
        /\ iter = 0 /\ j = 0 /\ sweeps = 0

SoftThresholdCall ==
    /\ pc = "st_call"
    /\ st_result' = soft_threshold(z, lambda)
    /\ pc' = "st_done"
    /\ UNCHANGED <<X, y, lambda, max_iter, tol, beta, X_j, r, beta_old,
                   max_change, iter, j, sweeps, z>>

SpecST == InitST /\ [][SoftThresholdCall]_vars


(***************************************************************************)
(* Notions the properties below are stated in                              *)
(***************************************************************************)
Zeros(k) == [i \in 1..k |-> Num(0)]

AllFinite(v) == \A i \in 1..Len(v) : IsFinite(v[i])

\* number of nonzero entries of a coefficient vector
NNZ(b) == Cardinality({k \in 1..Len(b) : b[k] # Num(0)})

\* the inner product of columns a and b (0-based) of Xm
ColDot(Xm, a, b) == Sum(VecTimes(Column(Xm, a), Column(Xm, b)))

ZeroColumn(Xm, c) == \A i \in 1..nrow(Xm) : Xm[i][c + 1] = Num(0)

HasZeroColumn(Xm) == \E c \in 0..(ncol(Xm) - 1) : ZeroColumn(Xm, c)

Orthogonal(Xm) ==
    \A a, b \in 0..(ncol(Xm) - 1) : a # b => ColDot(Xm, a, b) = Num(0)

Orthonormal(Xm) ==
    /\ Orthogonal(Xm)
    /\ \A a \in 0..(ncol(Xm) - 1) : ColDot(Xm, a, a) = Num(1)

\* y - X*b, computed from scratch
ResidualOf(Xm, yv, b) ==
    [i \in 1..nrow(Xm) |->
        DSub(yv[i], Sum([k \in 1..ncol(Xm) |-> DMul(Xm[i][k], b[k])]))]

\* 0.5*||y - X*b||^2 + lam*sum_k |b_k|
Objective(Xm, yv, lam, b) ==
    LET res == ResidualOf(Xm, yv, b)
    IN  DAdd(DMul(Norm(1, 2), Sum(VecTimes(res, res))),
             DMul(lam, Sum([k \in 1..Len(b) |-> DAbs(b[k])])))

\* the shrinkage of v by t >= 0, stated by cases
Shrunk(v, t, out) ==
    /\ DLess(t, v) => out = DSub(v, t)
    /\ DLess(v, DNeg(t)) => out = DAdd(v, t)
    /\ (DLeq(DNeg(t), v) /\ DLeq(v, t)) => out = Num(0)

InCoordBody == pc = "coord" /\ j < ncol(X)
AtCheck == pc = "coord" /\ ~(j < ncol(X))

\* steps still to take before the call returns
Measure ==
    CASE pc = "done" -> 0
      [] pc = "loop" -> IF iter < max_iter
                        THEN (max_iter - iter) * (ncol(X) + 2) + 1
                        ELSE 1
      [] pc = "coord" -> (max_iter - iter) * (ncol(X) + 2) - j
      [] OTHER -> 0

\* the condition under which some action of the call can be taken
CanStep ==
    \/ pc = "loop" /\ iter < max_iter
    \/ pc = "loop" /\ ~(iter < max_iter)
    \/ InCoordBody
    \/ AtCheck

InvalidInput ==
    \/ nrow(X) # Len(y)
    \/ DLess(lambda, Num(0))
    \/ max_iter <= 0
    \/ DLess(tol, Num(0))

(***************************************************************************)
(* C1                                                                      *)
(***************************************************************************)
C1_State ==
    /\ pc \in {"loop", "coord", "done"}
    /\ Measure >= 0
    /\ pc # "done" => CanStep
    /\ max_iter >= 1 =>
        /\ sweeps <= max_iter
        /\ pc = "done" =>
            /\ sweeps >= 1
            /\ sweeps < max_iter => DLess(max_change, tol)
            /\ ~DLess(max_change, tol) => sweeps = max_iter

C1_Step ==
    /\ Measure' < Measure
    /\ (AtCheck /\ DLess(max_change, tol)) => pc' = "done"
    /\ pc' = "done" => beta' = beta

C2_Residual == r = ResidualOf(X, y, beta)

C2_Witness ==
    /\ pc = "coord" /\ j = 1 /\ sweeps = 1 /\ lambda = Num(1)
    /\ beta[1] # beta_old /\ beta[2] # Num(0) /\ r # y /\ ~Orthogonal(X)

(***************************************************************************)
(* C3                                                                      *)
(***************************************************************************)
\* C3: for lambda >= 0, soft_threshold(z, lambda) is z - lambda when
\* z > lambda, z + lambda when z < -lambda and 0 when -lambda <= z <= lambda;
\* with lambda = 0 it returns z.
C3_SoftThreshold ==
    (pc = "st_done" /\ ~DLess(lambda, Num(0))) =>
        /\ Shrunk(z, lambda, st_result)
        /\ lambda = Num(0) => st_result = z

C3_Witness ==
    /\ pc = "st_done" /\ lambda = Num(1)
    /\ DLess(z, DNeg(lambda)) /\ st_result = DAdd(z, lambda)

(***************************************************************************)
(* C4                                                                      *)
(***************************************************************************)
\* C4: a call with an invalid input (row count different from the length of
\* y, negative lambda, max_iter <= 0 or negative tol) starts no sweep and
\* returns no coefficient vector.
C4_Rejected == InvalidInput => pc \notin {"coord", "done"}

(***************************************************************************)
(* C5                                                                      *)
(***************************************************************************)
C5_Step ==
    (InCoordBody /\ ZeroColumn(X, j)) => beta'[j + 1] = beta[j + 1]

\* C5: when X has an all-zero column, no NaN or Inf is ever stored in beta
\* or r, and the update of that column leaves its coefficient unchanged.
C5_ZeroColumn ==
    /\ [](HasZeroColumn(X) => (AllFinite(beta) /\ AllFinite(r)))
    /\ [][C5_Step]_vars

C5_Witness ==
    /\ pc = "coord" /\ j = 2 /\ ZeroColumn(X, 1) /\ ~ZeroColumn(X, 0)
    /\ DLess(Num(0), lambda) /\ beta[1] # Num(0) /\ beta[2] = Num(0)
    /\ IsNaN(DDiv(Rho(X_j, r, beta[2]), ColNorm2(X_j)))

(***************************************************************************)
(* C6                                                                      *)
(***************************************************************************)
\* the closed form: soft-thresholded inner products of the columns with y
ClosedForm(Xm, yv, lam, k, out) ==
    Shrunk(Sum(VecTimes(Column(Xm, k - 1), yv)), lam, out)

\* C6: with orthonormal columns and lambda >= 0, from the end of the first
\* full sweep on beta_j is the soft-thresholded X_j . y for every j, later
\* sweeps leave it so, and it is the vector returned.
C6_Orthonormal ==
    (Orthonormal(X) /\ ~DLess(lambda, Num(0))) =>
        /\ sweeps >= 1 =>
             \A k \in 1..ncol(X) : ClosedForm(X, y, lambda, k, beta[k])
        /\ (pc = "done" /\ max_iter >= 1) =>
             \A k \in 1..ncol(X) : ClosedForm(X, y, lambda, k, beta[k])

C6_Witness ==
    /\ pc = "done" /\ Orthonormal(X) /\ sweeps = 2
    /\ y = <<Num(2), Num(-2)>> /\ lambda = Num(1)
    /\ beta = <<Num(1), Num(-1)>>

(***************************************************************************)
(* C7                                                                      *)
(***************************************************************************)
\* the penalties of the model that are at least lam
LargerPenalties(lam) == {l2 \in LambdaVals : DLeq(lam, l2)}

SparsityMonotone ==
    \A l2 \in LargerPenalties(lambda) :
        NNZ(lasso_cda_cpp(X, y, l2, max_iter, tol)) <= NNZ(beta)

\* C7 as stated: for fixed X, y, max_iter, tol and 0 <= lambda1 <= lambda2
\* the result for lambda2 has no more nonzero entries than the result for
\* lambda1.
C7_Original ==
    (pc = "done" /\ ~InvalidInput) => SparsityMonotone

\* C7 amended: the same, for an X whose columns are mutually orthogonal.
C7_Orthogonal ==
    (pc = "done" /\ ~DLess(lambda, Num(0)) /\ Orthogonal(X)) => SparsityMonotone

C7_Witness ==
    /\ pc = "done" /\ lambda = Num(0) /\ Orthogonal(X) /\ sweeps = 2
    /\ ~HasZeroColumn(X) /\ NNZ(beta) = 2
    /\ NNZ(lasso_cda_cpp(X, y, Num(1), max_iter, tol)) = 1

(***************************************************************************)
(* C8                                                                      *)
(***************************************************************************)
C8_Step ==
    /\ X' = X /\ y' = y
    /\ InCoordBody =>
        /\ \A k \in 1..Len(beta) : k # j + 1 => beta'[k] = beta[k]
        /\ <<lambda', max_iter', tol', iter'>> = <<lambda, max_iter, tol, iter>>

\* C8: X and y keep the values they had at entry through the whole call;
\* a coordinate update changes only beta[j], r, X_j and the change trackers;
\* the returned vector has length p.
C8_Frame ==
    /\ [](pc = "done" => Len(beta) = ncol(X))
    /\ [][C8_Step]_vars

C8_Witness ==
    /\ pc = "done" /\ sweeps >= 1 /\ r # y /\ X_j # Zeros(nrow(X))
    /\ Len(beta) = ncol(X) /\ ~InvalidInput

(***************************************************************************)
(* C9                                                                      *)
(***************************************************************************)
\* C9: the convergence check ends the solve after a full sweep whose largest
\* change is less than or equal to tol (so with tol = 0 a sweep that changes
\* nothing ends it): once such a sweep has completed no further sweep starts.
C9_StopsAtLeq ==
    [][(~InvalidInput /\ pc = "loop" /\ sweeps >= 1 /\ DLeq(max_change, tol))
          => pc' # "coord"]_vars

(***************************************************************************)
(* C10                                                                     *)
(***************************************************************************)
DescentCase == ~DLess(lambda, Num(0)) /\ ~HasZeroColumn(X)

C10_Step ==
    (DescentCase /\ InCoordBody) =>
        DLeq(Objective(X, y, lambda, beta'), Objective(X, y, lambda, beta))

\* C10: for lambda >= 0 and an X without zero columns, no coordinate update
\* raises 0.5*||y - X*beta||^2 + lambda*sum|beta_k|, and the returned beta
\* has an objective no larger than the all-zero start.
C10_Descent ==
    /\ []((DescentCase /\ pc = "done") =>
            DLeq(Objective(X, y, lambda, beta),
                 Objective(X, y, lambda, Zeros(ncol(X)))))
    /\ [][C10_Step]_vars

C10_Witness ==
    /\ pc = "done" /\ DescentCase /\ DLess(Num(0), lambda) /\ sweeps = 2
    /\ DLess(Objective(X, y, lambda, beta),
             Objective(X, y, lambda, Zeros(ncol(X))))
    /\ ~Orthogonal(X)

=============================================================================
